---- MODULE Spec2Model ----
(***************************************************************************)
(* Model of the memtable of leveldb-rs (src/src/memtable.rs): the entry    *)
(* codec (build_memtable_key / parse_memtable_key), the search key         *)
(* (LookupKey), MemTable::add / get, and the filtering MemtableIterator,   *)
(* on top of an ordered container with the byte-wise StandardComparator.   *)
(*                                                                         *)
(* Bytes are the naturals 0..255 and a Vec<u8> is a sequence of bytes.     *)
(* A u64 is written as its 8 base-256 digits, most significant first, so   *)
(* that 64-bit values stay exact and the shift by 8 loses the top byte as  *)
(* it does in the program.                                                 *)
(***************************************************************************)
EXTENDS Naturals, Integers, Sequences, FiniteSets, TLC

VARIABLES
    map,      \* MemTable.map: the entries of the ordered container, in its order
    added,    \* history: the set of (seq, t, key, value) passed to add so far
    delCode,  \* the integer code of ValueType::TypeDeletion
    it,       \* the live MemtableIterator, if any
    res,      \* what the last call returned
    codec     \* inputs and outputs of the codec functions called on their own

vars == <<map, added, delCode, it, res, codec>>

(***************************************************************************)
(* Bounds                                                                  *)
(***************************************************************************)
\* largest number of entries added to one memtable
MaxEntries == 2

\* length of the long key and value given to the codec (two-byte varint)
LongLen == 130

(***************************************************************************)
(* u64 arithmetic on 8 base-256 digits, most significant digit first       *)
(***************************************************************************)
U64Zero == <<0, 0, 0, 0, 0, 0, 0, 0>>

\* the u64 of a small natural (below 2^16)
U64Of(n) == <<0, 0, 0, 0, 0, 0, n \div 256, n % 256>>

\* 2^56 + n for a byte n: a sequence number that does not fit in 56 bits
U64High(n) == <<1, 0, 0, 0, 0, 0, 0, n>>

\* x << 8 on u64: the most significant byte is shifted out
Shl8(x) == SubSeq(x, 2, 8) \o <<0>>

RECURSIVE BitOr(_, _)
\* bitwise or of two naturals
BitOr(a, b) ==
    IF a = 0 THEN b
    ELSE IF b = 0 THEN a
    ELSE (IF (a % 2) + (b % 2) > 0 THEN 1 ELSE 0) + 2 * BitOr(a \div 2, b \div 2)

\* x | y on u64
U64Or(x, y) == [j \in 1..8 |-> BitOr(x[j], y[j])]

\* x & 0xff on u64, as a natural
LowByte(x) == x[8]

\* x <= y on u64
U64Leq(x, y) ==
    \/ x = y
    \/ \E j \in 1..8 : /\ x[j] < y[j]
                       /\ \A h \in 1..(j - 1) : x[h] = y[h]

U64Less(x, y) == x # y /\ U64Leq(x, y)

(***************************************************************************)
(* integer_encoding: VarInt and FixedInt                                   *)
(***************************************************************************)
RECURSIVE VarRequiredSpace(_)
\* VarInt::required_space: bytes of the varint of n
VarRequiredSpace(n) == IF n < 128 THEN 1 ELSE 1 + VarRequiredSpace(n \div 128)

RECURSIVE VarBytes(_)
VarBytes(n) == IF n < 128 THEN <<n>> ELSE <<128 + (n % 128)>> \o VarBytes(n \div 128)

\* the buffer dst with the bytes src written from index i (0-based) on
WriteAt(dst, i, src) ==
    [j \in 1..Len(dst) |-> IF j > i /\ j <= i + Len(src) THEN src[j - i] ELSE dst[j]]

\* Vec::resize(n, 0)
Resize(buf, n) ==
    IF n <= Len(buf) THEN SubSeq(buf, 1, n)
    ELSE buf \o [j \in 1..(n - Len(buf)) |-> 0]

\* FixedInt::required_space for u64
FixedRequiredSpace == 8

\* FixedInt::encode_fixed for u64: little-endian, least significant byte first
EncodeFixed(x) == [j \in 1..8 |-> x[9 - j]]

\* FixedInt::decode_fixed for u64
DecodeFixed(bytes) == [j \in 1..8 |-> bytes[9 - j]]

RECURSIVE DecodeVarFrom(_, _, _, _)
\* VarInt::decode_var: <<value, bytes read>>; stops after the first byte
\* without the continuation bit, or at the end of the slice
DecodeVarFrom(src, j, mult, acc) ==
    IF j > Len(src) THEN <<acc, j - 1>>
    ELSE LET b == src[j]
             r == acc + (b % 128) * mult
         IN  IF b < 128 THEN <<r, j>> ELSE DecodeVarFrom(src, j + 1, mult * 128, r)

DecodeVar(src) == DecodeVarFrom(src, 1, 1, 0)

\* the slice v[i..] (0-based start)
SliceFrom(v, i) == SubSeq(v, i + 1, Len(v))

\* the slice v[i..j] (0-based, j exclusive)
Slice(v, i, j) == SubSeq(v, i + 1, j)

(***************************************************************************)
(* types::ValueType                                                        *)
(***************************************************************************)
TypeValue == 1

\* the codes a Deletion may carry: below or above the code of Value
DeletionCodes == {0, 2}


ValueTypes == {"TypeValue", "TypeDeletion"}

\* t as u64
AsU64(t) == IF t = "TypeValue" THEN U64Of(TypeValue) ELSE U64Of(delCode)

(***************************************************************************)
(* skipmap::StandardComparator and the ordered container                   *)
(***************************************************************************)
\* StandardComparator::cmp: byte-wise lexicographic order of two Vec<u8>, decided
\* at the first position where they differ, else by their lengths
Cmp(a, b) ==
    LET n      == IF Len(a) < Len(b) THEN Len(a) ELSE Len(b)
        differ == {j \in 1..n : a[j] # b[j]}
    IN  IF differ = {}
        THEN IF Len(a) < Len(b) THEN "Less"
             ELSE IF Len(a) > Len(b) THEN "Greater"
             ELSE "Equal"
        ELSE LET j == CHOOSE h \in differ : \A g \in differ : h <= g
             IN  IF a[j] < b[j] THEN "Less" ELSE "Greater"

\* index of the first entry of m whose key is >= key; Len(m) + 1 when none is
LowerBound(m, key) ==
    IF \E j \in 1..Len(m) : Cmp(m[j].key, key) # "Less"
    THEN CHOOSE j \in 1..Len(m) :
             /\ Cmp(m[j].key, key) # "Less"
             /\ \A h \in 1..(j - 1) : Cmp(m[h].key, key) = "Less"
    ELSE Len(m) + 1

\* SkipMap::insert: the new node goes in front of the first node >= key
SkipMapInsert(m, key, val) ==
    LET p == LowerBound(m, key)
    IN  SubSeq(m, 1, p - 1) \o <<[key |-> key, val |-> val]>> \o SubSeq(m, p, Len(m))

\* SkipMapIter: position 0 is the head (before the first entry), 1..Len(m) an
\* entry, Len(m) + 1 past the last entry
SkipMapIterNew == 0

SkipMapIterValid(m, pos) == pos >= 1 /\ pos <= Len(m)

\* SkipMapIter::next: the position moved to; past the end when there is no next
SkipMapIterNext(m, pos) == IF pos < Len(m) THEN pos + 1 ELSE Len(m) + 1

SkipMapIterSeek(m, key) == LowerBound(m, key)

(***************************************************************************)
(* LookupKey                                                               *)
(***************************************************************************)
\* LookupKey::new with the shift of the sequence number left out
LookupKey_new_unshifted(k, s) ==
    LET space == VarRequiredSpace(Len(k))
        key1  == WriteAt(Resize(<<>>, space), 0, VarBytes(Len(k)))
        key2  == key1 \o k
        i2    == Len(VarBytes(Len(k))) + Len(k)
        key3  == Resize(key2, i2 + FixedRequiredSpace)
        key4  == WriteAt(key3, i2, EncodeFixed(U64Or(s, U64Of(TypeValue))))
    IN  [key |-> key4, key_offset |-> space]

LookupKey_new(k, s) ==
    LET space == VarRequiredSpace(Len(k))
        key0  == Resize(<<>>, space)
        key1  == WriteAt(key0, 0, VarBytes(Len(k)))
        i1    == 0 + Len(VarBytes(Len(k)))
        key2  == key1 \o k
        i2    == i1 + Len(k)
        key3  == Resize(key2, i2 + FixedRequiredSpace)
        key4  == WriteAt(key3, i2, EncodeFixed(U64Or(Shl8(s), U64Of(TypeValue))))
    IN  [key |-> key4, key_offset |-> space]

memtable_key(lk) == lk.key

user_key(lk) == SliceFrom(lk.key, lk.key_offset)

(***************************************************************************)
(* Entry codec                                                             *)
(***************************************************************************)
\* build_memtable_key with the shift of the sequence number left out
BuildState_unshifted(key, value, t, seq) ==
    LET keysize == Len(key)
        valsize == Len(value)
        buf1 == WriteAt(Resize(<<>>, VarRequiredSpace(keysize)), 0, VarBytes(keysize))
        i1   == 0 + Len(VarBytes(keysize))
        buf2 == buf1 \o key
        i2   == i1 + Len(key)
        flag == U64Or(AsU64(t), seq)
        buf4 == WriteAt(Resize(buf2, i2 + FixedRequiredSpace), i2, EncodeFixed(flag))
        i3   == i2 + FixedRequiredSpace
        buf5 == Resize(buf4, i3 + VarRequiredSpace(valsize))
        buf6 == WriteAt(buf5, i3, VarBytes(valsize))
        i4   == i3 + Len(VarBytes(valsize))
        buf7 == buf6 \o value
        i5   == i4 + Len(value)
    IN  [buf |-> buf7, i |-> i5]

\* build_memtable_key that sizes the value-length field by the key length
BuildState_keySpaceForValue(key, value, t, seq) ==
    LET keysize == Len(key)
        valsize == Len(value)
        buf1 == WriteAt(Resize(<<>>, VarRequiredSpace(keysize)), 0, VarBytes(keysize))
        i1   == 0 + Len(VarBytes(keysize))
        buf2 == buf1 \o key
        i2   == i1 + Len(key)
        flag == U64Or(AsU64(t), Shl8(seq))
        buf4 == WriteAt(Resize(buf2, i2 + FixedRequiredSpace), i2, EncodeFixed(flag))
        i3   == i2 + FixedRequiredSpace
        buf5 == Resize(buf4, i3 + VarRequiredSpace(keysize))
        buf6 == WriteAt(buf5, i3, VarBytes(valsize))
        i4   == i3 + Len(VarBytes(valsize))
        buf7 == buf6 \o value
        i5   == i4 + Len(value)
    IN  [buf |-> buf7, i |-> i5]

\* the buffer and the write index i at the assert_eq!(i, buf.len())
BuildState(key, value, t, seq) ==
    LET keysize == Len(key)
        valsize == Len(value)
        buf0 == Resize(<<>>, VarRequiredSpace(keysize))
        buf1 == WriteAt(buf0, 0, VarBytes(keysize))
        i1   == 0 + Len(VarBytes(keysize))
        buf2 == buf1 \o key
        i2   == i1 + Len(key)
        flag == U64Or(AsU64(t), Shl8(seq))
        buf3 == Resize(buf2, i2 + FixedRequiredSpace)
        buf4 == WriteAt(buf3, i2, EncodeFixed(flag))
        i3   == i2 + FixedRequiredSpace
        buf5 == Resize(buf4, i3 + VarRequiredSpace(valsize))
        buf6 == WriteAt(buf5, i3, VarBytes(valsize))
        i4   == i3 + Len(VarBytes(valsize))
        buf7 == buf6 \o value
        i5   == i4 + Len(value)
    IN  [buf |-> buf7, i |-> i5]

build_memtable_key(key, value, t, seq) == BuildState(key, value, t, seq).buf

\* parse_memtable_key without the step over the value length (i += j)
parse_memtable_key_keepsLength(mkey) ==
    LET d      == DecodeVar(mkey)
        keylen == d[1]
        i0     == d[2]
        key    == Slice(mkey, i0, i0 + keylen)
        i1     == i0 + keylen
    IN  IF Len(mkey) > i1
        THEN LET tag    == DecodeFixed(Slice(mkey, i1, i1 + 8))
                 i2     == i1 + 8
                 dv     == DecodeVar(SliceFrom(mkey, i2))
                 vallen == dv[1]
                 val    == SliceFrom(mkey, i2)
             IN  <<keylen, key, tag, vallen, val>>
        ELSE <<keylen, key, U64Zero, 0, <<>>>>

\* <<keylen, key, tag, vallen, val>>
parse_memtable_key(mkey) ==
    LET d      == DecodeVar(mkey)
        keylen == d[1]
        i0     == d[2]
        key    == Slice(mkey, i0, i0 + keylen)
        i1     == i0 + keylen
    IN  IF Len(mkey) > i1
        THEN LET tag    == DecodeFixed(Slice(mkey, i1, i1 + 8))
                 i2     == i1 + 8
                 dv     == DecodeVar(SliceFrom(mkey, i2))
                 vallen == dv[1]
                 i3     == i2 + dv[2]
                 val    == SliceFrom(mkey, i3)
             IN  <<keylen, key, tag, vallen, val>>
        ELSE <<keylen, key, U64Zero, 0, <<>>>>

(***************************************************************************)
(* MemTable::get and MemtableIterator                                      *)
(***************************************************************************)
Ok(v) == [ok |-> TRUE, val |-> v, msg |-> ""]

NotFound(msg) == [ok |-> FALSE, val |-> <<>>, msg |-> msg]

\* MemTable::get without the comparison of the user keys
get_anyUserKey(m, lk) ==
    LET pos == SkipMapIterSeek(m, memtable_key(lk))
    IN  IF SkipMapIterValid(m, pos)
        THEN LET f == parse_memtable_key(m[pos].key)
             IN  IF LowByte(f[3]) = TypeValue THEN Ok(f[5]) ELSE NotFound("")
        ELSE NotFound("not found")

\* MemTable::get without the test of the mutation type
get_anyType(m, lk) ==
    LET pos == SkipMapIterSeek(m, memtable_key(lk))
    IN  IF SkipMapIterValid(m, pos)
        THEN LET l == parse_memtable_key(memtable_key(lk))
                 f == parse_memtable_key(m[pos].key)
             IN  IF Cmp(l[2], f[2]) = "Equal" THEN Ok(f[5]) ELSE NotFound("not found")
        ELSE NotFound("not found")

\* MemTable::get on the container contents m with the LookupKey lk
get(m, lk) ==
    LET pos == SkipMapIterSeek(m, memtable_key(lk))
    IN  IF SkipMapIterValid(m, pos)
        THEN LET foundkey == m[pos].key
                 l == parse_memtable_key(memtable_key(lk))
                 f == parse_memtable_key(foundkey)
             IN  IF Cmp(l[2], f[2]) = "Equal"
                 THEN IF LowByte(f[3]) = TypeValue
                      THEN Ok(f[5])
                      ELSE NotFound("")
                 ELSE NotFound("not found")
        ELSE NotFound("not found")

\* MemtableIterator::next without the test of the mutation type
next_noFilter(m, pos) ==
    LET p == SkipMapIterNext(m, pos)
    IN  IF pos < Len(m)
        THEN LET e == parse_memtable_key(m[p].key)
             IN  [pos |-> p, some |-> TRUE, key |-> e[2], val |-> e[5]]
        ELSE [pos |-> p, some |-> FALSE, key |-> <<>>, val |-> <<>>]

RECURSIVE next(_, _)
\* MemtableIterator::next from container position pos: the position the loop
\* stops at and what it returns
next(m, pos) ==
    LET p == SkipMapIterNext(m, pos)
    IN  IF pos < Len(m)
        THEN LET e == parse_memtable_key(m[p].key)
             IN  IF LowByte(e[3]) = TypeValue
                 THEN [pos |-> p, some |-> TRUE, key |-> e[2], val |-> e[5]]
                 ELSE next(m, p)
        ELSE [pos |-> p, some |-> FALSE, key |-> <<>>, val |-> <<>>]

\* MemtableIterator::seek with the largest sequence number in the search key
seek_maxSequence(m, to) ==
    SkipMapIterSeek(m, memtable_key(LookupKey_new(to,
                           <<255, 255, 255, 255, 255, 255, 255, 255>>)))

\* MemtableIterator::seek
seek(m, to) == SkipMapIterSeek(m, memtable_key(LookupKey_new(to, U64Of(0))))

\* MemtableIterator::valid
valid(m, pos) == SkipMapIterValid(m, pos)

\* what a call that panics leaves behind
Panic(msg) == [ok |-> FALSE, key |-> <<>>, val |-> <<>>, msg |-> msg]

\* MemtableIterator::current that reads the entry behind the cursor
current_ahead(m, pos) ==
    IF ~valid(m, pos)
    THEN Panic("assertion failed: self.valid()")
    ELSE LET e == parse_memtable_key(m[IF pos < Len(m) THEN pos + 1 ELSE pos].key)
         IN  IF LowByte(e[3]) = TypeValue
             THEN [ok |-> TRUE, key |-> e[2], val |-> e[5], msg |-> ""]
             ELSE Panic("should not happen")

\* MemtableIterator::current
current(m, pos) ==
    IF ~valid(m, pos)
    THEN Panic("assertion failed: self.valid()")
    ELSE LET e == parse_memtable_key(m[pos].key)
         IN  IF LowByte(e[3]) = TypeValue
             THEN [ok |-> TRUE, key |-> e[2], val |-> e[5], msg |-> ""]
             ELSE Panic("should not happen")

RECURSIVE SkipMapApproxMemory(_)
\* the container's accounting: grows with every entry
SkipMapApproxMemory(m) ==
    IF m = <<>> THEN 0
    ELSE Len(Head(m).key) + Len(Head(m).val) + SkipMapApproxMemory(Tail(m))

\* MemTable::approx_mem_usage
approx_mem_usage(m) == SkipMapApproxMemory(m)

(***************************************************************************)
(* Inputs                                                                  *)
(***************************************************************************)
\* user keys "a", "b", "ab"
Keys == {<<97>>, <<98>>, <<97, 98>>}

\* values "" and "1"
Values == {<<>>, <<49>>}

\* sequence numbers written: 1, 2 and 2^56 + 1
Seqs == {U64Of(1), U64Of(2), U64High(1)}

\* sequence numbers looked up: those written and 256
LookupSeqs == Seqs \cup {U64Of(256)}

\* the arguments of add: every version of "b"; of "ab" those of sequence
\* number 1; of "a" the Values of sequence number 1
Writes ==
    {w \in [seq : Seqs, t : ValueTypes, key : Keys, value : Values] :
        \/ w.key = <<98>>
        \/ w.seq = U64Of(1) /\ (w.key = <<97, 98>> \/ w.t = "TypeValue")}

(***************************************************************************)
(* State                                                                   *)
(***************************************************************************)
\* to: the target of the seek the cursor stands on, <<>> after iter and next
NoIter == [alive |-> FALSE, pos |-> 0, fresh |-> TRUE, out |-> <<>>, done |-> FALSE,
           to |-> <<>>]

NoRes == [op |-> "none", key |-> <<>>, seq |-> U64Zero, ok |-> FALSE,
          val |-> <<>>, msg |-> ""]

\* current() has panicked: the thread unwinds, nothing more is called
Panicked == res.op = "current" /\ ~res.ok

\* s, mkey, ukey: the sequence number of a LookupKey and what its memtable_key()
\* and user_key() return
NoCodec == [pc |-> "idle", key |-> <<>>, value |-> <<>>, t |-> "TypeValue",
            seq |-> U64Zero, buf |-> <<>>, i |-> 0, parsed |-> <<>>,
            s |-> U64Zero, mkey |-> <<>>, ukey |-> <<>>]

Init ==
    /\ map = <<>>
    /\ added = {}
    /\ delCode \in DeletionCodes
    /\ it = NoIter
    /\ res = NoRes
    /\ codec = NoCodec

\* MemTable::add that puts the entry behind the last one, wherever it sorts
Add_append(seq, t, key, value) ==
    /\ ~it.alive
    /\ res.op = "none"
    /\ Len(map) < MaxEntries
    /\ map' = Append(map, [key |-> build_memtable_key(key, value, t, seq), val |-> <<>>])
    /\ added' = added \cup {[seq |-> seq, t |-> t, key |-> key, value |-> value]}
    /\ res' = NoRes
    /\ UNCHANGED <<delCode, it, codec>>

\* MemTable::add that overwrites what is stored for the user key
Add_replace(seq, t, key, value) ==
    /\ ~it.alive
    /\ res.op = "none"
    /\ Len(map) < MaxEntries
    /\ map' = SkipMapInsert(SelectSeq(map, LAMBDA e : parse_memtable_key(e.key)[2] # key),
                            build_memtable_key(key, value, t, seq), <<>>)
    /\ added' = added \cup {[seq |-> seq, t |-> t, key |-> key, value |-> value]}
    /\ res' = NoRes
    /\ UNCHANGED <<delCode, it, codec>>

\* MemTable::add; &mut self excludes a live iterator
Add(seq, t, key, value) ==
    /\ ~it.alive
    /\ res.op = "none"
    /\ Len(map) < MaxEntries
    /\ map' = SkipMapInsert(map, build_memtable_key(key, value, t, seq), <<>>)
    /\ added' = added \cup {[seq |-> seq, t |-> t, key |-> key, value |-> value]}
    /\ res' = NoRes
    /\ UNCHANGED <<delCode, it, codec>>

\* MemTable::get with LookupKey::new(k, s)
Get(k, s) ==
    /\ ~it.alive
    /\ res.op = "none"
    /\ res' = LET r == get(map, LookupKey_new(k, s))
              IN  [op |-> "get", key |-> k, seq |-> s, ok |-> r.ok,
                   val |-> r.val, msg |-> r.msg]
    /\ UNCHANGED <<map, added, delCode, it, codec>>

\* MemTable::iter
Iter ==
    /\ ~it.alive
    /\ res.op = "none"
    /\ it' = [NoIter EXCEPT !.alive = TRUE, !.pos = SkipMapIterNew]
    /\ res' = NoRes
    /\ UNCHANGED <<map, added, delCode, codec>>

\* one call of MemtableIterator::next
Next_ ==
    /\ it.alive
    /\ ~Panicked
    /\ LET r == next(map, it.pos)
       IN  /\ it' = [it EXCEPT !.pos = r.pos,
                               !.out = IF r.some THEN @ \o <<<<r.key, r.val>>>> ELSE @,
                               !.done = ~r.some, !.to = <<>>]
           /\ res' = [NoRes EXCEPT !.op = "next", !.ok = r.some,
                                   !.key = r.key, !.val = r.val]
    /\ UNCHANGED <<map, added, delCode, codec>>

\* MemtableIterator::seek
Seek(to) ==
    /\ it.alive
    /\ ~Panicked
    /\ it' = [it EXCEPT !.pos = seek(map, to), !.fresh = FALSE,
                        !.out = <<>>, !.done = FALSE, !.to = to]
    /\ res' = NoRes
    /\ UNCHANGED <<map, added, delCode, codec>>

\* the iterator goes out of scope
Drop ==
    /\ it.alive
    /\ ~Panicked
    /\ it' = NoIter
    /\ res' = NoRes
    /\ UNCHANGED <<map, added, delCode, codec>>

\* MemtableIterator::valid
Valid ==
    /\ it.alive
    /\ res.op \notin {"valid", "current"}
    /\ res' = [NoRes EXCEPT !.op = "valid", !.ok = valid(map, it.pos)]
    /\ UNCHANGED <<map, added, delCode, it, codec>>

\* MemtableIterator::current
Current ==
    /\ it.alive
    /\ res.op \notin {"valid", "current"}
    /\ res' = LET r == current(map, it.pos)
              IN  [NoRes EXCEPT !.op = "current", !.ok = r.ok, !.key = r.key,
                                !.val = r.val, !.msg = r.msg]
    /\ UNCHANGED <<map, added, delCode, it, codec>>

\* MemTable::approx_mem_usage; the amount is kept as the length of res.val
ApproxMemUsage ==
    /\ ~it.alive
    /\ res.op = "none"
    /\ res' = [NoRes EXCEPT !.op = "approx_mem_usage", !.ok = TRUE,
                            !.val = [j \in 1..approx_mem_usage(map) |-> 0]]
    /\ UNCHANGED <<map, added, delCode, it, codec>>

\* the caller is done with the result of get or approx_mem_usage
Discard ==
    /\ res.op \in {"get", "approx_mem_usage"}
    /\ res' = NoRes
    /\ UNCHANGED <<map, added, delCode, it, codec>>

Next ==
    \/ \E w \in Writes : Add(w.seq, w.t, w.key, w.value)
    \/ \E k \in Keys, s \in LookupSeqs : Get(k, s)
    \/ Discard
    \/ ApproxMemUsage
    \/ Iter
    \/ Next_
    \/ Valid
    \/ Current
    \/ \E to \in Keys : Seek(to)
    \/ Drop

Spec == Init /\ [][Next]_vars

(***************************************************************************)
(* The codec functions called on their own                                 *)
(***************************************************************************)
LongBytes == [j \in 1..LongLen |-> 7]

\* "", "a", "ab", "abc" and a key whose length needs a two-byte varint
CodecKeys == {<<>>, <<97>>, <<97, 98>>, <<97, 98, 99>>, LongBytes}

CodecValues == {<<>>, <<49>>, <<49, 50, 51>>, LongBytes}

\* 0, 1, 123, 256, 2^56 + 1 and 2^64 - 1
CodecSeqs == {U64Zero, U64Of(1), U64Of(123), U64Of(256), U64High(1),
              <<255, 255, 255, 255, 255, 255, 255, 255>>}

CodecInit ==
    /\ map = <<>>
    /\ added = {}
    /\ delCode \in DeletionCodes
    /\ it = NoIter
    /\ res = NoRes
    /\ \E key \in CodecKeys, value \in CodecValues, t \in ValueTypes, seq \in CodecSeqs :
           codec = [NoCodec EXCEPT !.pc = "input", !.key = key, !.value = value,
                                   !.t = t, !.seq = seq]

\* build_memtable_key(key, value, t, seq), up to its assertion
Build ==
    /\ codec.pc = "input"
    /\ LET st == BuildState(codec.key, codec.value, codec.t, codec.seq)
       IN  codec' = [codec EXCEPT !.pc = IF st.i = Len(st.buf) THEN "built" ELSE "panic",
                                  !.buf = st.buf, !.i = st.i]
    /\ UNCHANGED <<map, added, delCode, it, res>>

\* parse_memtable_key on the buffer built
Parse ==
    /\ codec.pc = "built"
    /\ codec' = [codec EXCEPT !.pc = "parsed", !.parsed = parse_memtable_key(codec.buf)]
    /\ UNCHANGED <<map, added, delCode, it, res>>

\* LookupKey::new(key, s), memtable_key() and user_key() for the key built
Lookup ==
    /\ codec.pc = "built"
    /\ \E s \in CodecSeqs :
           LET lk == LookupKey_new(codec.key, s)
           IN  codec' = [codec EXCEPT !.pc = "lookup", !.s = s,
                                      !.mkey = memtable_key(lk), !.ukey = user_key(lk)]
    /\ UNCHANGED <<map, added, delCode, it, res>>

CodecNext == Build \/ Parse \/ Lookup

SpecCodec == CodecInit /\ [][CodecNext]_vars

\* the memtable and the codec functions side by side
SpecAll == (Init \/ CodecInit) /\ [][(codec = NoCodec /\ Next) \/ CodecNext]_vars

(***************************************************************************)
(* Vocabulary of the properties                                            *)
(***************************************************************************)
\* the entries added for user key k
EntriesOf(k) == {a \in added : a.key = k}

\* no two add calls carried the same (user key, sequence number)
DistinctPairs ==
    /\ Cardinality(added) = Len(map)
    /\ \A a, b \in added : (a.key = b.key /\ a.seq = b.seq) => a = b

\* the entries of k with a sequence number <= s
Visible(k, s) == {a \in EntriesOf(k) : U64Leq(a.seq, s)}

\* the entry of k with the largest sequence number <= s
Newest(k, s) ==
    CHOOSE a \in Visible(k, s) : \A b \in Visible(k, s) : U64Leq(b.seq, a.seq)

\* the entry of k with the largest sequence number
Latest(k) ==
    CHOOSE a \in EntriesOf(k) : \A b \in EntriesOf(k) : U64Leq(b.seq, a.seq)

\* sequence numbers that fit in 56 bits
Below2p56(x) == x[1] = 0

\* x >> 8 on u64
Shr8(x) == <<0>> \o SubSeq(x, 1, 7)

IsPrefix(a, b) == Len(a) <= Len(b) /\ SubSeq(b, 1, Len(a)) = a

IsStrictPrefix(a, b) == Len(a) < Len(b) /\ SubSeq(b, 1, Len(a)) = a

\* the add call behind a stored entry
RecOf(e) ==
    CHOOSE a \in added : build_memtable_key(a.key, a.value, a.t, a.seq) = e.key

RECURSIVE ValueRecsFrom(_, _)
ValueRecsFrom(m, j) ==
    IF j > Len(m) THEN <<>>
    ELSE (IF RecOf(m[j]).t = "TypeValue" THEN <<RecOf(m[j])>> ELSE <<>>)
         \o ValueRecsFrom(m, j + 1)

\* the add calls of type Value, in the order of the container
ValueRecs == ValueRecsFrom(map, 1)

Pairs(recs) == [j \in 1..Len(recs) |-> <<recs[j].key, recs[j].value>>]

\* a get has just returned
GotResult == res.op = "get"

\* a traversal from a fresh iterator is under way / has reached None
Traversing == it.alive /\ it.fresh

Traversed == it.alive /\ it.fresh /\ it.done

\* every sequence number written or looked up so far fits in 56 bits, so that
\* the tag holds all of it
SeqsFit == Below2p56(res.seq) /\ \A a \in added : Below2p56(a.seq)

(***************************************************************************)
(* C1..C5: point lookups                                                   *)
(***************************************************************************)
\* C1: after adds with pairwise distinct (user key, sequence number), get(k, s)
\* returns the value of the entry of k with the largest sequence number <= s
\* whenever that entry exists and is a Value (sequence numbers below 2^56).
C1_NewestVisibleVersion ==
    (GotResult /\ DistinctPairs /\ SeqsFit /\ Visible(res.key, res.seq) # {}
       /\ Newest(res.key, res.seq).t = "TypeValue")
    => (res.ok /\ res.val = Newest(res.key, res.seq).value)

\* C2 as stated: after adds with pairwise distinct (user key, sequence number)
\* that include add(s, Value, k, v), get(k, s) returns Ok(v).
C2_ExactMatch ==
    (GotResult /\ DistinctPairs)
    => \A a \in EntriesOf(res.key) :
           (a.seq = res.seq /\ a.t = "TypeValue") => (res.ok /\ res.val = a.value)

\* C2 amended: the same for sequence numbers below 2^56; and the search key of
\* (k, s) is a strict byte prefix of the encoded Value entry of (k, s).
C2_ExactMatchBelow2p56 ==
    (GotResult /\ DistinctPairs /\ \A b \in added : Below2p56(b.seq))
    => \A a \in EntriesOf(res.key) :
           (a.seq = res.seq /\ a.t = "TypeValue")
           => /\ res.ok
              /\ res.val = a.value
              /\ IsStrictPrefix(memtable_key(LookupKey_new(a.key, a.seq)),
                                build_memtable_key(a.key, a.value, a.t, a.seq))

C2_Witness ==
    /\ GotResult /\ DistinctPairs /\ res.ok
    /\ \A b \in added : Below2p56(b.seq)
    /\ Cardinality(EntriesOf(res.key)) = 2
    /\ \E a \in EntriesOf(res.key) :
           a.seq = res.seq /\ a.t = "TypeValue" /\ a.value = res.val

C4_PredatesAllWrites ==
    (GotResult /\ SeqsFit /\ EntriesOf(res.key) # {}
       /\ \A a \in EntriesOf(res.key) : U64Less(res.seq, a.seq))
    => ~res.ok

\* C5: get(k, s) returns not-found whenever the entry of k with the largest
\* sequence number <= s is a Deletion, also when a Value of k with a larger
\* sequence number is stored (sequence numbers below 2^56).
C5_DeletedAtOrBefore ==
    (GotResult /\ DistinctPairs /\ SeqsFit /\ Visible(res.key, res.seq) # {}
       /\ Newest(res.key, res.seq).t = "TypeDeletion")
    => ~res.ok

(***************************************************************************)
(* C6..C9: the filtering iterator                                          *)
(***************************************************************************)
\* C6: from a fresh iterator, the pairs returned by next() up to the first None
\* are exactly the stored entries in container order without the Deletion
\* entries, each as (user key, value); the pairs returned so far are a prefix
\* of that list, next() returns None once the list is used up, and never more
\* pairs are returned than entries are stored.
C6_TraversalIsFilteredContainerOrder ==
    Traversing =>
        /\ IsPrefix(it.out, Pairs(ValueRecs))
        /\ Len(it.out) <= Len(map)
        /\ it.done => it.out = Pairs(ValueRecs)
        /\ it.out = Pairs(ValueRecs) => ~next(map, it.pos).some

C6_Witness ==
    /\ Traversed
    /\ Len(map) = 2
    /\ Len(it.out) = 1
    /\ \E a \in added : a.t = "TypeDeletion"

\* C7: a user key whose newest entry is a Deletion is never yielded by a
\* traversal (sequence numbers below 2^56).
C7_TombstoneShadowsOlderValues ==
    (Traversed /\ DistinctPairs /\ SeqsFit)
    => \A j \in 1..Len(it.out) : Latest(it.out[j][1]).t # "TypeDeletion"

\* all adds were Values of pairwise distinct user keys
ValuesOfDistinctKeys ==
    /\ Cardinality(added) = Len(map)
    /\ \A a \in added : a.t = "TypeValue"
    /\ \A a, b \in added : a.key = b.key => a = b

\* C8 as stated: for Values of pairwise distinct user keys the traversal is the
\* same whatever the order of the adds: all of them, in ascending user-key order.
C8_AscendingUserKeys ==
    (Traversed /\ ValuesOfDistinctKeys)
    => /\ {it.out[j] : j \in 1..Len(it.out)} = {<<a.key, a.value>> : a \in added}
       /\ \A i, j \in 1..Len(it.out) :
              i < j => Cmp(it.out[i][1], it.out[j][1]) = "Less"

\* the user key behind its length prefix, as the container compares it
Prefixed(k) == VarBytes(Len(k)) \o k

\* C8 amended: for Values of pairwise distinct user keys the traversal is the
\* same whatever the order of the adds: all of them, in ascending byte-wise
\* order of varint(|key|) ++ key, which among keys of equal length is ascending
\* user-key order.
C8_AscendingPrefixedKeys ==
    (Traversed /\ ValuesOfDistinctKeys)
    => /\ {it.out[j] : j \in 1..Len(it.out)} = {<<a.key, a.value>> : a \in added}
       /\ \A i, j \in 1..Len(it.out) :
              i < j => /\ Cmp(Prefixed(it.out[i][1]), Prefixed(it.out[j][1])) = "Less"
                       /\ Len(it.out[i][1]) = Len(it.out[j][1])
                              => Cmp(it.out[i][1], it.out[j][1]) = "Less"

C8_Witness ==
    /\ Traversed /\ ValuesOfDistinctKeys
    /\ Len(it.out) = 2
    /\ Len(it.out[1][1]) = Len(it.out[2][1])

\* C9: the traversal is in ascending user-key order, and of two Values of the
\* same user key the one with the larger sequence number comes first
\* (sequence numbers below 2^56; user keys of one length, among which the
\* container's order of keys is the user-key order).
C9_KeysAscendingNewerFirst ==
    (Traversed /\ DistinctPairs /\ SeqsFit /\ it.out = Pairs(ValueRecs)
       /\ \A x, y \in added : Len(x.key) = Len(y.key))
    => \A i, j \in 1..Len(ValueRecs) :
           i < j => \/ Cmp(ValueRecs[i].key, ValueRecs[j].key) = "Less"
                    \/ /\ ValueRecs[i].key = ValueRecs[j].key
                       /\ U64Less(ValueRecs[j].seq, ValueRecs[i].seq)

(***************************************************************************)
(* C10: the codec                                                          *)
(***************************************************************************)
\* (seq << 8) | type, digit by digit
TagOf(seq, t) ==
    [j \in 1..8 |-> IF j < 8 THEN seq[j + 1]
                    ELSE IF t = "TypeValue" THEN TypeValue ELSE delCode]

\* C10: parse_memtable_key(build_memtable_key(key, value, type, seq)) is
\* (|key|, key, (seq << 8) | type, |value|, value), empty keys and values
\* included.
C10_RoundTrip ==
    codec.pc = "parsed"
    => codec.parsed = <<Len(codec.key), codec.key, TagOf(codec.seq, codec.t),
                        Len(codec.value), codec.value>>

C10_Witness ==
    /\ codec.pc = "parsed"
    /\ codec.key = LongBytes
    /\ codec.value = <<>>
    /\ codec.t = "TypeDeletion"
    /\ codec.seq = U64High(1)

(***************************************************************************)
(* C11: the bytes add stores                                               *)
(***************************************************************************)
\* varint(|key|) ++ key ++ little-endian (seq << 8) | type ++ varint(|value|)
\* ++ value
Layout(key, value, t, seq) ==
    VarBytes(Len(key)) \o key \o [j \in 1..8 |-> TagOf(seq, t)[9 - j]]
    \o VarBytes(Len(value)) \o value

\* the sum of the five field widths
LayoutLen(key, value) ==
    VarRequiredSpace(Len(key)) + Len(key) + 8 + VarRequiredSpace(Len(value)) + Len(value)

\* C11: the sort key add stores is varint(|key|) ++ key ++ 8-byte little-endian
\* (seq << 8) | type ++ varint(|value|) ++ value, with an empty payload; its
\* length is the sum of the five field widths and assert_eq!(i, buf.len())
\* holds.
C11_StoredBytes ==
    /\ codec.pc # "panic"
    /\ codec.pc \in {"built", "parsed", "lookup"}
       => /\ codec.buf = Layout(codec.key, codec.value, codec.t, codec.seq)
          /\ Len(codec.buf) = LayoutLen(codec.key, codec.value)
          /\ codec.i = Len(codec.buf)
    /\ \A j \in 1..Len(map) :
           /\ map[j].val = <<>>
           /\ \E a \in added : map[j].key = Layout(a.key, a.value, a.t, a.seq)
    /\ \A a \in added :
           /\ \E j \in 1..Len(map) : map[j].key = Layout(a.key, a.value, a.t, a.seq)
           /\ BuildState(a.key, a.value, a.t, a.seq).i = LayoutLen(a.key, a.value)

\* the encoding pinned by tests::test_add
C11_Witness ==
    /\ codec.pc = "built"
    /\ codec.key = <<97, 98, 99>> /\ codec.value = <<49, 50, 51>>
    /\ codec.t = "TypeValue" /\ codec.seq = U64Of(123)
    /\ codec.buf = <<3, 97, 98, 99, 1, 123, 0, 0, 0, 0, 0, 0, 3, 49, 50, 51>>

(***************************************************************************)
(* C12: valid() and the entry under the cursor                             *)
(***************************************************************************)
\* the cursor stands on an entry that an add of the given type wrote
OnEntryOf(t) ==
    /\ it.pos \in 1..Len(map)
    /\ \E a \in added : a.t = t /\ map[it.pos].key = Layout(a.key, a.value, a.t, a.seq)

\* C12: after any sequence of next() and seek() calls valid() is true exactly
\* when the cursor stands on a Value entry (false on a fresh iterator, false
\* once next() has returned None, never true on a Deletion entry), so
\* current() does not panic when valid() holds.
C12_ValidIffOnValue ==
    /\ it.alive => (valid(map, it.pos) <=> OnEntryOf("TypeValue"))
    /\ res.op = "valid" => (res.ok <=> OnEntryOf("TypeValue"))
    /\ (res.op = "current" /\ valid(map, it.pos)) => res.ok

(***************************************************************************)
(* C13: seek on a table of Values                                          *)
(***************************************************************************)
\* current() has been called on the cursor a seek(it.to) left, in a table
\* that holds Value entries only
SoughtAmongValues ==
    /\ res.op = "current"
    /\ it.to # <<>>
    /\ added # {}
    /\ \A a \in added : a.t = "TypeValue"

\* the search key of seek(t) sorts at or before every stored entry of t
SeekKeyBeforeEntriesOf(t) ==
    \A a \in added :
        a.key = t => Cmp(memtable_key(LookupKey_new(t, U64Zero)),
                         Layout(a.key, a.value, a.t, a.seq)) # "Greater"

\* C13 as stated: after seek(t) on a table of Value entries current() returns
\* the entry with the smallest user key >= t (t itself when stored, otherwise
\* the next larger user key); the search key with sequence number 0 sorts at
\* or before every stored entry of t.
C13_SeekSmallestUserKey ==
    SoughtAmongValues
    => /\ SeekKeyBeforeEntriesOf(it.to)
       /\ (\E a \in added : Cmp(a.key, it.to) # "Less")
          => /\ res.ok
             /\ \E a \in added : a.key = res.key /\ a.value = res.val
             /\ Cmp(res.key, it.to) # "Less"
             /\ \A a \in added :
                    Cmp(a.key, it.to) # "Less" => Cmp(res.key, a.key) # "Greater"

\* C13 amended: after seek(t) on a table of Value entries, when some stored
\* user key k has varint(|k|) ++ k >= varint(|t|) ++ t byte-wise, current()
\* returns an entry of the smallest such key in that order (t itself when
\* stored; among keys as long as t the next larger user key); the search key
\* with sequence number 0 sorts at or before every stored entry of t.
C13_SeekSmallestPrefixedKey ==
    SoughtAmongValues
    => /\ SeekKeyBeforeEntriesOf(it.to)
       /\ (\E a \in added : Cmp(Prefixed(a.key), Prefixed(it.to)) # "Less")
          => /\ res.ok
             /\ \E a \in added : a.key = res.key /\ a.value = res.val
             /\ Cmp(Prefixed(res.key), Prefixed(it.to)) # "Less"
             /\ \A a \in added :
                    Cmp(Prefixed(a.key), Prefixed(it.to)) # "Less"
                    => Cmp(Prefixed(res.key), Prefixed(a.key)) # "Greater"
             /\ (\E a \in added : a.key = it.to) => res.key = it.to
             /\ Len(res.key) = Len(it.to) => Cmp(res.key, it.to) # "Less"

C13_Witness ==
    /\ SoughtAmongValues
    /\ res.ok
    /\ Len(map) = 2
    /\ res.key # it.to
    /\ Len(res.key) = Len(it.to)
    /\ \E a \in added : a.key # res.key

(***************************************************************************)
(* C14: the stored entries only grow                                       *)
(***************************************************************************)
\* sequence s with the element at position p left out
Without(s, p) == [j \in 1..(Len(s) - 1) |-> IF j < p THEN s[j] ELSE s[j + 1]]

\* C14: the stored entries change only through add: an add of a tuple not
\* added before makes them one more and leaves those stored before as they
\* were, byte for byte; get, iter, next, seek, current, valid and
\* approx_mem_usage leave them unchanged.
C14_AppendOnly ==
    [][ /\ added' # added
           => /\ Len(map') = Len(map) + 1
              /\ \E p \in 1..Len(map') :
                     /\ Without(map', p) = map
                     /\ \E a \in added' \ added :
                            map'[p].key = Layout(a.key, a.value, a.t, a.seq)
        /\ map' # map => (~it.alive /\ res.op = "none" /\ Len(map') = Len(map) + 1
                          /\ \E p \in 1..Len(map') : Without(map', p) = map)
        /\ (it' # it \/ res'.op # "none") => map' = map ]_vars

\* two adds and a lookup have happened
C14_Witness ==
    /\ Len(map) = 2
    /\ Cardinality(added) = 2
    /\ \E a, b \in added : a # b /\ a.key = b.key
    /\ res.op = "get"

(***************************************************************************)
(* C15: next() and current() agree                                         *)
(***************************************************************************)
\* the last call on the iterator was a next() that returned Some(..)
AfterSome == it.alive /\ it.to = <<>> /\ ~it.done /\ it.out # <<>>

\* C15: whenever next() returns Some((k, v)), valid() is true immediately
\* afterwards and current() returns the same (k, v).
C15_CurrentIsLastNext ==
    /\ (res.op = "next" /\ res.ok)
       => /\ AfterSome
          /\ it.out[Len(it.out)] = <<res.key, res.val>>
          /\ valid(map, it.pos)
          /\ current(map, it.pos) =
                 [ok |-> TRUE, key |-> res.key, val |-> res.val, msg |-> ""]
    /\ (AfterSome /\ res.op = "valid") => res.ok
    /\ (AfterSome /\ res.op = "current")
       => /\ res.ok
          /\ <<res.key, res.val>> = it.out[Len(it.out)]

\* current() was called after the second next() that returned an entry
C15_Witness ==
    /\ AfterSome
    /\ res.op = "current" /\ res.ok
    /\ Len(it.out) = 2
    /\ <<res.key, res.val>> = it.out[2]

(***************************************************************************)
(* C16: the search key against the entries of its user key                 *)
(***************************************************************************)
\* C16: LookupKey::new(k, s) compares less than or equal to every encoded
\* entry of user key k whose sequence number is >= s, whatever the sequence
\* numbers (here for the entries of type Value, whose code is that of the
\* search key).
C16_SearchKeyAtOrBefore ==
    (codec.pc = "lookup" /\ U64Leq(codec.s, codec.seq) /\ codec.t = "TypeValue")
    => Cmp(codec.mkey, codec.buf) # "Greater"

(***************************************************************************)
(* C17: what get returns                                                   *)
(***************************************************************************)
\* the bytes of the search key of get(k, s)
SearchBytes(k, s) ==
    VarBytes(Len(k)) \o k \o [j \in 1..8 |-> TagOf(s, "TypeValue")[9 - j]]

\* the positions of the stored entries that are >= the search key of the
\* lookup in res
AtOrAfterSearchKey ==
    {j \in 1..Len(map) : Cmp(map[j].key, SearchBytes(res.key, res.seq)) # "Less"}

\* the first of them is an entry add(_, t, k, v) wrote
FirstAtOrAfterIs(t, k, v) ==
    /\ AtOrAfterSearchKey # {}
    /\ LET f == CHOOSE j \in AtOrAfterSearchKey : \A h \in AtOrAfterSearchKey : j <= h
       IN  \E a \in added : /\ map[f].key = Layout(a.key, a.value, a.t, a.seq)
                            /\ a.t = t /\ a.key = k /\ a.value = v

\* C17: get returns Ok(v) only if the first stored entry >= the search key
\* exists, has the user key of the search key, is of type Value and holds v;
\* otherwise it returns a not-found status, never another error and never the
\* value of a tombstone.
C17_OkOnlyForMatchingValue ==
    GotResult
    => /\ res.ok <=> \E v \in Values : FirstAtOrAfterIs("TypeValue", res.key, v)
       /\ res.ok => FirstAtOrAfterIs("TypeValue", res.key, res.val)
       /\ ~res.ok => res.val = <<>> /\ res.msg \in {"", "not found"}

\* a lookup that landed on a tombstone holding "1"
C17_Witness ==
    /\ GotResult
    /\ ~res.ok
    /\ FirstAtOrAfterIs("TypeDeletion", res.key, <<49>>)

(***************************************************************************)
(* C18: the two views of a LookupKey                                       *)
(***************************************************************************)
\* C18: LookupKey::new(k, s).user_key() returns exactly the bytes of k, and
\* memtable_key() returns varint(|k|) ++ k ++ the 8-byte little-endian
\* (s << 8) | Value.
C18_LookupKeyViews ==
    codec.pc = "lookup"
    => /\ codec.ukey = codec.key
       /\ codec.mkey = SearchBytes(codec.key, codec.s)

(***************************************************************************)
(* C19: sequence numbers and tags                                          *)
(***************************************************************************)
\* the tag of the entry that add(a.seq, a.t, a.key, a.value) stores
StoredTag(a) == parse_memtable_key(build_memtable_key(a.key, a.value, a.t, a.seq))[3]

\* the adds in S have pairwise different tags and entries for one user key, and
\* each tag gives back its sequence number and its type
TagsTell(S) ==
    /\ \A a, b \in S :
           (a.key = b.key /\ a.seq # b.seq)
           => /\ StoredTag(a) # StoredTag(b)
              /\ build_memtable_key(a.key, a.value, a.t, a.seq)
                     # build_memtable_key(b.key, b.value, b.t, b.seq)
    /\ \A a \in S :
           /\ \E j \in 1..Len(map) : parse_memtable_key(map[j].key)[3] = StoredTag(a)
           /\ Shr8(StoredTag(a)) = a.seq
           /\ LowByte(StoredTag(a)) = LowByte(AsU64(a.t))

\* no call is under way and no result is held: the state an add leaves
AfterAdds == ~it.alive /\ res.op = "none" /\ added # {}

\* C19 as stated: over the whole 64-bit range different sequence numbers of
\* one user key give different tags and entries, and the sequence number is
\* tag >> 8, the type tag & 0xff.
C19_TagsTellSequence == AfterAdds => TagsTell(added)

\* C19 amended: for sequence numbers below 2^56 different sequence numbers of
\* one user key give different tags and entries, and the sequence number is
\* tag >> 8, the type tag & 0xff.
C19_TagsTellSequenceBelow2p56 ==
    AfterAdds => TagsTell({a \in added : Below2p56(a.seq)})

C19_Witness ==
    /\ AfterAdds
    /\ Len(map) = 2
    /\ \E a, b \in added :
           /\ a.key = b.key /\ a.seq # b.seq
           /\ Below2p56(a.seq) /\ Below2p56(b.seq)
           /\ a.t # b.t

====
